---------------------------- MODULE Spec2Model ----------------------------
(***************************************************************************)
(* A model of wpilib.PIDController (src/wpilib/wpilib/pidcontroller.py):   *)
(* the periodic compute step _calculate run by the PIDTask thread, the     *)
(* configuration and query API called from user threads, and the           *)
(* reentrant lock self.mutex that serialises them.                         *)
(*                                                                         *)
(* Numbers.  The controller computes with Python floats.  The model holds  *)
(* every float quantity (inputs, setpoints, errors, bounds, results) as an *)
(* integer count of 1/One units, so 1.0 is One.  Gains and divisors are    *)
(* plain integers.  One is divisible by every gain and every elapsed time  *)
(* the model draws, so each quotient the code forms is exact.              *)
(*                                                                         *)
(* Threads.  A step of the model is one critical section of the code (the  *)
(* body of one `with self.mutex:`), or one call made outside the lock.     *)
(* mutex names the thread that holds the lock.  The RLock's re-entrancy    *)
(* (reset -> disable, setInputRange -> setSetpoint, the tolerance          *)
(* lambdas) is folded into the step of the outermost holder.               *)
(***************************************************************************)
EXTENDS Integers, Sequences, FiniteSets, TLC

----------------------------------------------------------------------------
(* Bounds of the model and the representation of 1.0 *)

One == 12

MaxVal == 1

MaxBuf == 2

MaxElapsed == 1

----------------------------------------------------------------------------
(* Python built-ins used by the controller *)

Abs(x) == IF x < 0 THEN -x ELSE x

Min2(a, b) == IF a <= b THEN a ELSE b

Max2(a, b) == IF a >= b THEN a ELSE b

\* Python's true division a / b, b # 0, on values the model keeps exact.
Div(a, b) == IF b > 0 THEN a \div b ELSE (-a) \div (-b)

RECURSIVE SumSeq(_)
SumSeq(s) == IF s = <<>> THEN 0 ELSE Head(s) + SumSeq(Tail(s))

\* islice(s, n): the first n items of s, or all of s when it is shorter.
Islice(s, n) == SubSeq(s, 1, Min2(n, Len(s)))

\* deque.append on a deque of the given maxlen: a full deque drops its
\* leftmost (oldest) item; a deque of maxlen 0 stays empty.
DequeAppend(s, maxlen, x) ==
    IF maxlen = 0 THEN <<>>
    ELSE IF Len(s) < maxlen THEN Append(s, x)
    ELSE Append(Tail(s), x)

----------------------------------------------------------------------------
VARIABLES
    \* PIDController fields
    P, I, D, F,
    pidInput, pidOutput,
    maximumOutput, minimumOutput, maximumInput, minimumInput,
    continuous, enabled,
    prevError, totalError, buf, bufMaxlen,
    \* how many samples compute steps have appended since the error history
    \* was last empty, counted up to MaxBuf
    appended,
    \* for each sample of the error history, the setpoint it was computed
    \* against; and, while a compute step is in its critical section, the
    \* setpoint its error was computed against
    bufSetpoints, errorSetpoint,
    setpoint, prevSetpoint, error, result,
    tolerance,
    entries,
    elapsed,
    stopped,
    \* the PIDSource object: its reading and its source type
    sensor, pidSource,
    \* the lock
    mutex,
    \* the PIDTask thread inside _calculate: position and locals
    pcT, t_result, t_branch, t_min, t_max,
    \* a user thread inside disable / reset / free
    pcU,
    \* a user thread inside onTarget: position, the tolerance value its lambda
    \* captured, and what the call returned or raised
    pcQ, q_value, ret,
    \* whether, at some moment of the onTarget call in progress or last made,
    \* the error history was non-empty with its average within the tolerance
    q_seen,
    \* the NetworkTables notifier thread: the listener it is to call next or
    \* is inside, the value it passes, and the key of the entry it notifies of
    pcN, nval, nkey,
    \* the step just taken: its operation, arguments, the exception it
    \* raised and the calls it made on the source and the sink
    last

gains == <<P, I, D, F>>
refs == <<pidInput, pidOutput>>
bounds == <<maximumOutput, minimumOutput, maximumInput, minimumInput, continuous>>
loop == <<prevError, totalError, error, result>>
hist == <<buf, bufMaxlen, appended, bufSetpoints, errorSetpoint>>
sp == <<setpoint, prevSetpoint, elapsed>>
source == <<sensor, pidSource>>
tick == <<pcT, t_result, t_branch, t_min, t_max>>
others == <<pcU, pcQ, q_value, q_seen, ret, pcN, nval, nkey>>

vars == <<gains, refs, bounds, enabled, loop, hist, sp, tolerance, entries,
          stopped, source, mutex, tick, others, last>>

kDisplacement == "kDisplacement"
kRate == "kRate"

NoIO == <<>>

Step(op, arg, raised, io) == [op |-> op, arg |-> arg, raised |-> raised, io |-> io]

SinkWrite(v, by, locked) == [call |-> "pidOutput", value |-> v, by |-> by, locked |-> locked]

SourceRead == [call |-> "pidGet"]

----------------------------------------------------------------------------
(* Pure helpers of the controller *)

clamp(value, low, high) == Max2(low, Min2(value, high))

\* Mutant: the error is never wrapped.
getContinuousError_unwrapped(e) == e

\* abs(error) > (maximumInput - minimumInput) / 2 is compared as
\* 2 * abs(error) > maximumInput - minimumInput.
getContinuousError(e) ==
    IF continuous /\ 2 * Abs(e) > maximumInput - minimumInput
    THEN IF e > 0 THEN e - (maximumInput - minimumInput)
         ELSE e + (maximumInput - minimumInput)
    ELSE e

getDeltaSetpoint ==
    IF elapsed # 0 THEN Div(setpoint - prevSetpoint, elapsed) ELSE 0

\* Mutant: the setpoint is limited from above only.
ClampSetpoint_upperOnly(v, lo, hi) ==
    IF hi > lo
    THEN IF v > hi THEN hi ELSE v
    ELSE v

\* The setpoint setSetpoint stores for a requested value.
ClampSetpoint(v, lo, hi) ==
    IF hi > lo
    THEN IF v > hi THEN hi ELSE IF v < lo THEN lo ELSE v
    ELSE v

isAvgErrorValid == Len(buf) # 0

\* abs(getAvgError()) < value, with getAvgError() = sum(buf) / len(buf) for a
\* non-empty buf and 0 for an empty one; the quotient is compared by
\* cross-multiplication.
AvgErrorBelow(b, num, den) ==
    IF Len(b) = 0 THEN 0 < num
    ELSE den * Abs(SumSeq(b)) < num * Len(b)

\* Whether history b is non-empty and abs(sum(b) / len(b)) < num / den.
NonEmptyBelow(b, num, den) ==
    b # <<>> /\ den * Abs(SumSeq(b)) < num * Len(b)

----------------------------------------------------------------------------
(* Construction *)

\* __init__(Kp, Ki, Kd, Kf, source, output): the state after construction,
\* for gains drawn from gainMenu and a source of a type drawn from kinds.
InitWith(gainMenu, kinds, readings) ==
    /\ \E g \in gainMenu : /\ P = g[1]
                           /\ I = g[2]
                           /\ D = g[3]
                           /\ F = g[4]
    /\ pidInput = "source"
    /\ pidOutput = "output"
    /\ maximumOutput = One
    /\ minimumOutput = -One
    /\ maximumInput = 0
    /\ minimumInput = 0
    /\ continuous = FALSE
    /\ enabled = FALSE
    /\ prevError = 0
    /\ totalError = 0
    /\ buf = <<>>
    /\ bufMaxlen = 1
    /\ appended = 0
    /\ bufSetpoints = <<>>
    /\ errorSetpoint = 0
    /\ setpoint = 0
    /\ prevSetpoint = 0
    /\ error = 0
    /\ result = 0
    /\ tolerance = [kind |-> "unset", value |-> 0]
    /\ entries = [attached |-> FALSE]
    /\ elapsed = 0
    /\ stopped = FALSE
    /\ sensor \in readings
    /\ pidSource \in kinds
    /\ mutex = "free"
    /\ pcT = "idle"
    /\ t_result = 0
    /\ t_branch = kDisplacement
    /\ t_min = 0
    /\ t_max = 0
    /\ pcU = "idle"
    /\ pcQ = "idle"
    /\ q_value = 0
    /\ q_seen = FALSE
    /\ ret = "none"
    /\ pcN = "idle"
    /\ nval = 0
    /\ nkey = "none"
    /\ last = Step("init", <<>>, "none", NoIO)

----------------------------------------------------------------------------
(* The world outside the controller *)

\* The process variable takes a new value.
SensorChange(v) ==
    /\ sensor # v
    /\ sensor' = v
    /\ UNCHANGED <<gains, refs, bounds, enabled, loop, hist, sp, tolerance,
                   entries, stopped, pidSource, mutex, tick, others, last>>

\* Time passes on setpointTimer.
Elapse ==
    /\ elapsed < MaxElapsed
    /\ elapsed' = elapsed + 1
    /\ UNCHANGED <<gains, refs, bounds, enabled, loop, hist, setpoint,
                   prevSetpoint, tolerance, entries, stopped, source, mutex,
                   tick, others, last>>

----------------------------------------------------------------------------
(* The PIDTask thread: TimerTask's loop and _calculate *)

\* TimerTask.cancel(): no further call of _calculate is started; a call in
\* progress runs on.
pid_task_cancel == stopped' = TRUE

\* The timer loop finds the task not cancelled and calls _calculate.
T_wake ==
    /\ pcT = "idle"
    /\ ~stopped
    /\ pcT' = "start"
    /\ last' = Step("T_wake", <<>>, "none", NoIO)
    /\ UNCHANGED <<gains, refs, bounds, enabled, loop, hist, sp, tolerance,
                   entries, stopped, source, mutex, t_result, t_branch,
                   t_min, t_max, others>>

\* Mutant: the enabled snapshot is not tested.
TickProceeds_ignoringEnabled == pidInput # "None" /\ pidOutput # "None"

\* Whether the first critical section of _calculate lets the tick go on:
\* both references present and the enabled snapshot true.
TickProceeds == pidInput # "None" /\ pidOutput # "None" /\ enabled

\* _calculate, first critical section, and the test of the snapshot.
T_snapshot ==
    /\ pcT = "start"
    /\ mutex = "free"
    /\ pcT' = IF TickProceeds THEN "snap" ELSE "idle"
    /\ last' = Step("T_snapshot", <<>>, "none", NoIO)
    /\ UNCHANGED <<gains, refs, bounds, enabled, loop, hist, sp, tolerance,
                   entries, stopped, source, mutex, t_result, t_branch,
                   t_min, t_max, others>>

\* _calculate, second critical section up to the test of the source type:
\* self.pidInput, not the snapshot, is asked for the type, and is None once
\* free() has run.
T_begin ==
    /\ pcT = "snap"
    /\ mutex = "free"
    /\ error' = getContinuousError(setpoint - sensor)
    /\ errorSetpoint' = IF pidInput = "None" THEN 0 ELSE setpoint
    /\ IF pidInput = "None"
       THEN /\ pcT' = "raised"
            /\ mutex' = "free"
            /\ last' = Step("T_begin", <<>>, "AttributeError", <<SourceRead>>)
            /\ UNCHANGED t_branch
       ELSE /\ pcT' = "calc"
            /\ mutex' = "tick"
            /\ t_branch' = pidSource
            /\ last' = Step("T_begin", <<>>, "none", <<SourceRead>>)
    /\ UNCHANGED <<gains, refs, bounds, enabled, prevError, totalError, result,
                   buf, bufMaxlen, appended, bufSetpoints, sp, tolerance,
                   entries, stopped, source, t_result, t_min, t_max, others>>

\* Mutant: the accumulator grows without a limit.
Accumulate_unlimited(k) == IF k # 0 THEN totalError + error ELSE totalError

\* The accumulator after the step, for the gain k that divides the bounds.
Accumulate(k) ==
    IF k # 0
    THEN clamp(totalError + error, Div(minimumOutput, k), Div(maximumOutput, k))
    ELSE totalError

\* Mutant: the feed-forward term is F times the setpoint for either kind.
calculateFeedForward_rateOnly == F * setpoint

\* calculateFeedForward(): the term it returns.
calculateFeedForward ==
    IF pidSource = kRate THEN F * setpoint ELSE F * getDeltaSetpoint

\* Mutant: the rate result takes P times the error, not the accumulator.
RateResult_proportional(tot) == P * error + D * error + calculateFeedForward

\* The unclamped result of the rate branch and of the displacement branch.
RateResult(tot) == P * tot + D * error + calculateFeedForward

\* Mutant: the displacement result has no derivative term.
DisplacementResult_noDerivative(tot) ==
    P * error + I * tot + calculateFeedForward

DisplacementResult(tot) ==
    P * error + I * tot + D * (error - prevError) + calculateFeedForward

\* Mutant: the result is stored and written without the final clamp.
ClampResult_unclamped(r) == r

\* The value _calculate stores in self.result.
ClampResult(r) == clamp(r, minimumOutput, maximumOutput)

\* Mutant: pidOutput(result) is called inside the critical section.
TickRelease_afterSink == mutex' = "tick"

\* The second `with self.mutex:` block ends before pidOutput(result).
TickRelease == mutex' = "free"

\* _calculate, the rest of the second critical section.  The step records
\* the term its one call of calculateFeedForward() returned.
T_finish ==
    /\ pcT = "calc"
    /\ mutex = "tick"
    /\ LET tot == IF t_branch = kRate THEN Accumulate(P) ELSE Accumulate(I)
           raw == IF t_branch = kRate THEN RateResult(tot)
                  ELSE DisplacementResult(tot)
       IN /\ totalError' = tot
          /\ result' = ClampResult(raw)
          /\ t_result' = ClampResult(raw)
    /\ IF pidSource = kRate
       THEN UNCHANGED <<prevSetpoint, elapsed>>
       ELSE /\ prevSetpoint' = setpoint
            /\ elapsed' = 0
    /\ prevError' = error
    /\ buf' = DequeAppend(buf, bufMaxlen, error)
    /\ bufSetpoints' = DequeAppend(bufSetpoints, bufMaxlen, errorSetpoint)
    /\ errorSetpoint' = 0
    /\ appended' = IF bufMaxlen = 0 THEN 0 ELSE Min2(appended + 1, MaxBuf)
    /\ t_min' = minimumOutput
    /\ t_max' = maximumOutput
    /\ TickRelease
    /\ pcT' = "out"
    /\ last' = Step("T_finish", <<calculateFeedForward>>, "none", NoIO)
    /\ q_seen' = (\/ q_seen
                  \/ pcQ = "avg" /\ NonEmptyBelow(buf', q_value, 1))
    /\ UNCHANGED <<gains, refs, bounds, enabled, error, bufMaxlen, setpoint,
                   tolerance, entries, stopped, source, t_branch, pcU, pcQ,
                   q_value, ret, pcN, nval, nkey>>

\* _calculate calls pidOutput(result), outside the critical section.
T_sinkBegin ==
    /\ pcT = "out"
    /\ pcT' = "insink"
    /\ last' = Step("T_sinkBegin", <<>>, "none",
                    <<SinkWrite(t_result, "tick", mutex)>>)
    /\ UNCHANGED <<gains, refs, bounds, enabled, loop, hist, sp, tolerance,
                   entries, stopped, source, mutex, t_result, t_branch,
                   t_min, t_max, others>>

\* The sink call returns and with it _calculate.
T_sinkEnd ==
    /\ pcT = "insink"
    /\ pcT' = "idle"
    /\ t_result' = 0
    /\ t_branch' = kDisplacement
    /\ t_min' = 0
    /\ t_max' = 0
    /\ last' = Step("T_sinkEnd", <<>>, "none", NoIO)
    /\ UNCHANGED <<gains, refs, bounds, enabled, loop, hist, sp, tolerance,
                   entries, stopped, source, mutex, others>>

----------------------------------------------------------------------------
(* The configuration API.  A call is made while the controller is in use   *)
(* (free() has not begun) and takes the lock when it is free.              *)

CanCall == pcU = "idle" /\ mutex = "free" /\ ~stopped

\* entries with the mirrored key set, when a table is attached.
Mirror(key, v) ==
    IF entries.attached THEN [entries EXCEPT ![key] = v] ELSE entries

enable ==
    /\ CanCall
    /\ enabled' = TRUE
    /\ entries' = Mirror("enabled", TRUE)
    /\ last' = Step("enable", <<>>, "none", NoIO)
    /\ UNCHANGED <<gains, refs, bounds, loop, hist, sp, tolerance, stopped,
                   source, mutex, tick, others>>

\* Mutant: disable() writes zero only when the controller is enabled.
disable_write_ifEnabled ==
    /\ CanCall
    /\ mutex' = "user"
    /\ pcU' = "disable"
    /\ last' = Step("disable", <<>>, "none",
                    IF enabled THEN <<SinkWrite(0, "user", "user")>> ELSE NoIO)
    /\ UNCHANGED <<gains, refs, bounds, enabled, loop, hist, sp, tolerance,
                   entries, stopped, source, tick, pcQ, q_value, q_seen,
                   ret, pcN,
                   nval, nkey>>

\* disable(): inside the lock, pidOutput(0) ...
disable_write ==
    /\ CanCall
    /\ mutex' = "user"
    /\ pcU' = "disable"
    /\ last' = Step("disable", <<>>, "none", <<SinkWrite(0, "user", "user")>>)
    /\ UNCHANGED <<gains, refs, bounds, enabled, loop, hist, sp, tolerance,
                   entries, stopped, source, tick, pcQ, q_value, q_seen,
                   ret, pcN,
                   nval, nkey>>

\* ... then enabled = False, the lock is released and the entry is set.
disable_finish ==
    /\ pcU = "disable"
    /\ enabled' = FALSE
    /\ entries' = Mirror("enabled", FALSE)
    /\ mutex' = "free"
    /\ pcU' = "idle"
    /\ last' = Step("disable_finish", <<>>, "none", NoIO)
    /\ UNCHANGED <<gains, refs, bounds, loop, hist, sp, tolerance, stopped,
                   source, tick, pcQ, q_value, q_seen, ret, pcN, nval, nkey>>


\* reset(): inside the lock, disable() writes pidOutput(0) ...
reset_write ==
    /\ CanCall
    /\ mutex' = "user"
    /\ pcU' = "reset"
    /\ last' = Step("reset", <<>>, "none", <<SinkWrite(0, "user", "user")>>)
    /\ UNCHANGED <<gains, refs, bounds, enabled, loop, hist, sp, tolerance,
                   entries, stopped, source, tick, pcQ, q_value, q_seen,
                   ret, pcN,
                   nval, nkey>>

\* Mutant: reset() leaves the accumulator as it was.
reset_finish_keepsAccumulator ==
    /\ pcU = "reset"
    /\ enabled' = FALSE
    /\ entries' = Mirror("enabled", FALSE)
    /\ prevError' = 0
    /\ result' = 0
    /\ mutex' = "free"
    /\ pcU' = "idle"
    /\ last' = Step("reset_finish", <<>>, "none", NoIO)
    /\ UNCHANGED <<gains, refs, bounds, error, totalError, hist, sp, tolerance,
                   stopped, source, tick, pcQ, q_value, q_seen, ret, pcN,
                   nval, nkey>>

\* ... and sets enabled = False; then reset() clears prevError, totalError
\* and result and releases the lock.
reset_finish ==
    /\ pcU = "reset"
    /\ enabled' = FALSE
    /\ entries' = Mirror("enabled", FALSE)
    /\ prevError' = 0
    /\ totalError' = 0
    /\ result' = 0
    /\ mutex' = "free"
    /\ pcU' = "idle"
    /\ last' = Step("reset_finish", <<>>, "none", NoIO)
    /\ UNCHANGED <<gains, refs, bounds, error, hist, sp, tolerance, stopped,
                   source, tick, pcQ, q_value, q_seen, ret, pcN, nval, nkey>>

\* free(): self.pid_task.cancel() ...
free_cancel ==
    /\ pcU = "idle"
    /\ ~stopped
    /\ pid_task_cancel
    /\ pcU' = "free"
    /\ last' = Step("free", <<>>, "none", NoIO)
    /\ UNCHANGED <<gains, refs, bounds, enabled, loop, hist, sp, tolerance,
                   entries, source, mutex, tick, pcQ, q_value, q_seen, ret,
                   pcN, nval, nkey>>

\* ... then, inside the lock, both references are set to None ...
free_null ==
    /\ pcU = "free"
    /\ mutex = "free"
    /\ pidInput' = "None"
    /\ pidOutput' = "None"
    /\ pcU' = "free_listeners"
    /\ last' = Step("free_null", <<>>, "none", NoIO)
    /\ UNCHANGED <<gains, bounds, enabled, loop, hist, sp, tolerance, entries,
                   stopped, source, mutex, tick, pcQ, q_value, q_seen, ret,
                   pcN, nval, nkey>>

\* ... then removeListeners().
free_removeListeners ==
    /\ pcU = "free_listeners"
    /\ entries' = [attached |-> FALSE]
    /\ pcU' = "idle"
    /\ last' = Step("free_removeListeners", <<>>, "none", NoIO)
    /\ UNCHANGED <<gains, refs, bounds, enabled, loop, hist, sp, tolerance,
                   stopped, source, mutex, tick, pcQ, q_value, q_seen, ret,
                   pcN, nval, nkey>>

setPID(p, i, d, f) ==
    /\ CanCall
    /\ P' = p
    /\ I' = i
    /\ D' = d
    /\ F' = f
    /\ entries' = IF entries.attached
                  THEN [entries EXCEPT !.p = p, !.i = i, !.d = d, !.f = f]
                  ELSE entries
    /\ last' = Step("setPID", <<p, i, d, f>>, "none", NoIO)
    /\ UNCHANGED <<refs, bounds, enabled, loop, hist, sp, tolerance, stopped,
                   source, mutex, tick, others>>

setContinuous(c) ==
    /\ CanCall
    /\ continuous' = c
    /\ last' = Step("setContinuous", <<c>>, "none", NoIO)
    /\ UNCHANGED <<gains, refs, maximumOutput, minimumOutput, maximumInput,
                   minimumInput, enabled, loop, hist, sp, tolerance, entries,
                   stopped, source, mutex, tick, others>>

\* Mutant: setSetpoint zeroes the accumulator and keeps the history.
SetpointEffect_keepsHistory(v, lo, hi) ==
    /\ setpoint' = ClampSetpoint(v, lo, hi)
    /\ totalError' = 0
    /\ entries' = Mirror("setpoint", ClampSetpoint(v, lo, hi))
    /\ UNCHANGED <<buf, bufSetpoints, appended, errorSetpoint>>

\* Mutant: the history and the accumulator are cleared only when the
\* setpoint changes.
SetpointEffect_ifChanged(v, lo, hi) ==
    /\ setpoint' = ClampSetpoint(v, lo, hi)
    /\ IF ClampSetpoint(v, lo, hi) # setpoint
       THEN /\ buf' = <<>>
            /\ bufSetpoints' = <<>>
            /\ totalError' = 0
            /\ appended' = 0
       ELSE UNCHANGED <<buf, bufSetpoints, totalError, appended>>
    /\ UNCHANGED errorSetpoint
    /\ entries' = Mirror("setpoint", ClampSetpoint(v, lo, hi))

\* What setSetpoint(v) writes inside the lock, for the input range [lo, hi]
\* in force, and the entry it sets.
SetpointEffect(v, lo, hi) ==
    /\ setpoint' = ClampSetpoint(v, lo, hi)
    /\ buf' = <<>>
    /\ bufSetpoints' = <<>>
    /\ appended' = 0
    /\ totalError' = 0
    /\ entries' = Mirror("setpoint", ClampSetpoint(v, lo, hi))
    /\ UNCHANGED errorSetpoint

setSetpoint(v) ==
    /\ CanCall
    /\ SetpointEffect(v, minimumInput, maximumInput)
    /\ last' = Step("setSetpoint", <<v>>, "none", NoIO)
    /\ UNCHANGED <<gains, refs, bounds, enabled, prevError, error, result,
                   bufMaxlen, prevSetpoint, elapsed, tolerance, stopped,
                   source, mutex, tick, others>>

\* Mutant: the range setters accept any pair.
BadRange_never(lo, hi) == FALSE

\* The test both range setters make before they write.
BadRange(lo, hi) == lo > hi

setInputRange(lo, hi) ==
    /\ CanCall
    /\ IF BadRange(lo, hi)
       THEN /\ last' = Step("setInputRange", <<lo, hi>>, "ValueError", NoIO)
            /\ UNCHANGED <<minimumInput, maximumInput, setpoint, buf,
                           appended, bufSetpoints, errorSetpoint, totalError,
                           entries>>
       ELSE /\ minimumInput' = lo
            /\ maximumInput' = hi
            /\ SetpointEffect(setpoint, lo, hi)
            /\ last' = Step("setInputRange", <<lo, hi>>, "none", NoIO)
    /\ UNCHANGED <<gains, refs, maximumOutput, minimumOutput, continuous,
                   enabled, prevError, error, result, bufMaxlen, prevSetpoint,
                   elapsed, tolerance, stopped, source, mutex, tick, others>>

setOutputRange(lo, hi) ==
    /\ CanCall
    /\ IF BadRange(lo, hi)
       THEN /\ last' = Step("setOutputRange", <<lo, hi>>, "ValueError", NoIO)
            /\ UNCHANGED <<minimumOutput, maximumOutput>>
       ELSE /\ minimumOutput' = lo
            /\ maximumOutput' = hi
            /\ last' = Step("setOutputRange", <<lo, hi>>, "none", NoIO)
    /\ UNCHANGED <<gains, refs, maximumInput, minimumInput, continuous,
                   enabled, loop, hist, sp, tolerance, entries, stopped,
                   source, mutex, tick, others>>

\* setPIDSourceType(t) writes the source's type without taking the lock.
setPIDSourceType(t) ==
    /\ pcU = "idle"
    /\ ~stopped
    /\ pidSource' = t
    /\ last' = Step("setPIDSourceType", <<t>>, "none", NoIO)
    /\ UNCHANGED <<gains, refs, bounds, enabled, loop, hist, sp, tolerance,
                   entries, stopped, sensor, mutex, tick, others>>

setAbsoluteTolerance(v) ==
    /\ CanCall
    /\ tolerance' = [kind |-> "absolute", value |-> v]
    /\ last' = Step("setAbsoluteTolerance", <<v>>, "none", NoIO)
    /\ UNCHANGED <<gains, refs, bounds, enabled, loop, hist, sp, entries,
                   stopped, source, mutex, tick, others>>

setPercentTolerance(pct) ==
    /\ CanCall
    /\ tolerance' = [kind |-> "percent", value |-> pct]
    /\ last' = Step("setPercentTolerance", <<pct>>, "none", NoIO)
    /\ UNCHANGED <<gains, refs, bounds, enabled, loop, hist, sp, entries,
                   stopped, source, mutex, tick, others>>

\* The deque setToleranceBuffer(n) builds from the current one.
ResizedBuf(b, n) == Islice(b, n)

setToleranceBuffer(n) ==
    /\ CanCall
    /\ buf' = ResizedBuf(buf, n)
    /\ bufSetpoints' = ResizedBuf(bufSetpoints, n)
    /\ bufMaxlen' = n
    /\ UNCHANGED errorSetpoint
    /\ appended' = IF ResizedBuf(buf, n) = <<>> THEN 0 ELSE appended
    /\ q_seen' = (\/ q_seen
                  \/ pcQ = "avg" /\ NonEmptyBelow(buf', q_value, 1))
    /\ last' = Step("setToleranceBuffer", <<n>>, "none", NoIO)
    /\ UNCHANGED <<gains, refs, bounds, enabled, loop, sp, tolerance, entries,
                   stopped, source, mutex, tick, pcU, pcQ, q_value, ret, pcN,
                   nval, nkey>>

----------------------------------------------------------------------------
(* onTarget(), called from a user thread *)

\* PercentageTolerance_onTarget(percentage): one critical section.
PercentageTolerance_onTarget(pct) ==
    isAvgErrorValid /\ AvgErrorBelow(buf, pct * (maximumInput - minimumInput), 100)

\* AbsoluteTolerance_onTarget(value), its second operand:
\* abs(self.getAvgError()) < value.
AbsoluteTolerance_below(value) == AvgErrorBelow(buf, value, 1)

Bool(b) == IF b THEN "True" ELSE "False"

CanQuery == pcQ = "idle" /\ mutex = "free" /\ ~stopped

\* onTarget() as the class defines it: no tolerance has been set.
onTarget_unset ==
    /\ CanQuery
    /\ tolerance.kind = "unset"
    /\ ret' = "ValueError"
    /\ last' = Step("onTarget", <<>>, "ValueError", NoIO)
    /\ UNCHANGED <<gains, refs, bounds, enabled, loop, hist, sp, tolerance,
                   entries, stopped, source, mutex, tick, pcU, pcQ, q_value,
                   q_seen, pcN, nval, nkey>>

\* onTarget() after setPercentTolerance.
onTarget_percent ==
    /\ CanQuery
    /\ tolerance.kind = "percent"
    /\ ret' = Bool(PercentageTolerance_onTarget(tolerance.value))
    /\ q_seen' = NonEmptyBelow(buf, tolerance.value * (maximumInput - minimumInput),
                               100)
    /\ last' = Step("onTarget", <<>>, "none", NoIO)
    /\ UNCHANGED <<gains, refs, bounds, enabled, loop, hist, sp, tolerance,
                   entries, stopped, source, mutex, tick, pcU, pcQ, q_value,
                   pcN, nval, nkey>>

\* onTarget() after setAbsoluteTolerance: isAvgErrorValid() in a critical
\* section of its own; False ends the call.
onTarget_absolute_valid ==
    /\ CanQuery
    /\ tolerance.kind = "absolute"
    /\ q_value' = tolerance.value
    /\ q_seen' = NonEmptyBelow(buf, tolerance.value, 1)
    /\ IF isAvgErrorValid
       THEN /\ pcQ' = "avg"
            /\ last' = Step("isAvgErrorValid", <<>>, "none", NoIO)
            /\ UNCHANGED ret
       ELSE /\ ret' = "False"
            /\ last' = Step("onTarget", <<>>, "none", NoIO)
            /\ UNCHANGED pcQ
    /\ UNCHANGED <<gains, refs, bounds, enabled, loop, hist, sp, tolerance,
                   entries, stopped, source, mutex, tick, pcU, pcN, nval,
                   nkey>>

\* ... then getAvgError() in a second critical section, and the comparison.
onTarget_absolute_avg ==
    /\ pcQ = "avg"
    /\ mutex = "free"
    /\ ret' = Bool(AbsoluteTolerance_below(q_value))
    /\ pcQ' = "idle"
    /\ q_seen' = (q_seen \/ NonEmptyBelow(buf, q_value, 1))
    /\ last' = Step("onTarget_avg", <<>>, "none", NoIO)
    /\ UNCHANGED <<gains, refs, bounds, enabled, loop, hist, sp, tolerance,
                   entries, stopped, source, mutex, tick, pcU, q_value, pcN,
                   nval, nkey>>

----------------------------------------------------------------------------
(* The mirroring table *)

\* initTable(table) with a table: the entries take the current values and
\* the listeners are added.
initTable ==
    /\ CanCall
    /\ entries' = [attached |-> TRUE, p |-> P, i |-> I, d |-> D, f |-> F,
                   setpoint |-> setpoint, enabled |-> enabled]
    /\ last' = Step("initTable", <<>>, "none", NoIO)
    /\ UNCHANGED <<gains, refs, bounds, enabled, loop, hist, sp, tolerance,
                   stopped, source, mutex, tick, others>>

\* setpointChanged(entry, key, value, param) on the notifier thread:
\* getSetpoint() != value, in a critical section of its own ...
setpointChanged_test(v) ==
    /\ pcN = "idle"
    /\ entries.attached
    /\ mutex = "free"
    /\ nval' = v
    /\ pcN' = IF setpoint # v THEN "set" ELSE "idle"
    /\ last' = Step("setpointChanged", <<v>>, "none", NoIO)
    /\ UNCHANGED <<gains, refs, bounds, enabled, loop, hist, sp, tolerance,
                   entries, stopped, source, mutex, tick, pcU, pcQ,
                   q_value, q_seen,
                   ret, nkey>>

\* ... then setSetpoint(value).
setpointChanged_set ==
    /\ pcN = "set"
    /\ mutex = "free"
    /\ SetpointEffect(nval, minimumInput, maximumInput)
    /\ pcN' = "idle"
    /\ last' = Step("setpointChanged_set", <<nval>>, "none", NoIO)
    /\ UNCHANGED <<gains, refs, bounds, enabled, prevError, error, result,
                   bufMaxlen, prevSetpoint, elapsed, tolerance, stopped,
                   source, mutex, tick, pcU, pcQ, q_value, q_seen, ret,
                   nval, nkey>>

\* The listeners initTable adds to the entry of a key, in the order it adds
\* them: it adds all six to pEntry.
Listeners(key) ==
    IF key = "p"
    THEN <<"pChanged", "iChanged", "dChanged", "fChanged", "setpointChanged",
           "enabledChanged">>
    ELSE <<>>

\* The listener the notifier calls after listener h of the entry it notifies
\* of; "idle" after the last one.
AfterListener(h) ==
    LET ls == Listeners(nkey)
        n == CHOOSE m \in 1 .. Len(ls) : ls[m] = h
    IN IF n < Len(ls) THEN ls[n + 1] ELSE "idle"

\* A remote client sets the entry of a key to v, a change of its value; the
\* notifier thread then calls the listeners of that entry with v, one after
\* the other.  v is a number for p, i, d and f, a number of 1/One units for
\* setpoint and a boolean for enabled.
push(key, v) ==
    /\ pcN = "idle"
    /\ entries.attached
    /\ ~stopped
    /\ entries[key] # v
    /\ entries' = [entries EXCEPT ![key] = v]
    /\ nkey' = key
    /\ nval' = v
    /\ pcN' = IF Listeners(key) = <<>> THEN "idle" ELSE Listeners(key)[1]
    /\ last' = Step("push", <<key, v>>, "none", NoIO)
    /\ UNCHANGED <<gains, refs, bounds, enabled, loop, hist, sp, tolerance,
                   stopped, source, mutex, tick, pcU, pcQ, q_value, q_seen,
                   ret>>

pChanged ==
    /\ pcN = "pChanged"
    /\ mutex = "free"
    /\ P' = nval
    /\ pcN' = AfterListener("pChanged")
    /\ last' = Step("pChanged", <<nval>>, "none", NoIO)
    /\ UNCHANGED <<I, D, F, refs, bounds, enabled, loop, hist, sp, tolerance,
                   entries, stopped, source, mutex, tick, pcU, pcQ,
                   q_value, q_seen,
                   ret, nval, nkey>>

iChanged ==
    /\ pcN = "iChanged"
    /\ mutex = "free"
    /\ I' = nval
    /\ pcN' = AfterListener("iChanged")
    /\ last' = Step("iChanged", <<nval>>, "none", NoIO)
    /\ UNCHANGED <<P, D, F, refs, bounds, enabled, loop, hist, sp, tolerance,
                   entries, stopped, source, mutex, tick, pcU, pcQ,
                   q_value, q_seen,
                   ret, nval, nkey>>

dChanged ==
    /\ pcN = "dChanged"
    /\ mutex = "free"
    /\ D' = nval
    /\ pcN' = AfterListener("dChanged")
    /\ last' = Step("dChanged", <<nval>>, "none", NoIO)
    /\ UNCHANGED <<P, I, F, refs, bounds, enabled, loop, hist, sp, tolerance,
                   entries, stopped, source, mutex, tick, pcU, pcQ,
                   q_value, q_seen,
                   ret, nval, nkey>>

fChanged ==
    /\ pcN = "fChanged"
    /\ mutex = "free"
    /\ F' = nval
    /\ pcN' = AfterListener("fChanged")
    /\ last' = Step("fChanged", <<nval>>, "none", NoIO)
    /\ UNCHANGED <<P, I, D, refs, bounds, enabled, loop, hist, sp, tolerance,
                   entries, stopped, source, mutex, tick, pcU, pcQ,
                   q_value, q_seen,
                   ret, nval, nkey>>

\* setpointChanged as a listener of the entry notified of: the number it is
\* passed is a setpoint of nval * One units.
listener_setpointChanged_test ==
    /\ pcN = "setpointChanged"
    /\ mutex = "free"
    /\ pcN' = IF setpoint # nval * One THEN "setpointChanged_set"
              ELSE AfterListener("setpointChanged")
    /\ last' = Step("setpointChanged", <<nval>>, "none", NoIO)
    /\ UNCHANGED <<gains, refs, bounds, enabled, loop, hist, sp, tolerance,
                   entries, stopped, source, mutex, tick, pcU, pcQ,
                   q_value, q_seen,
                   ret, nval, nkey>>

listener_setpointChanged_set ==
    /\ pcN = "setpointChanged_set"
    /\ mutex = "free"
    /\ SetpointEffect(nval * One, minimumInput, maximumInput)
    /\ pcN' = AfterListener("setpointChanged")
    /\ last' = Step("setpointChanged_set", <<nval * One>>, "none", NoIO)
    /\ UNCHANGED <<gains, refs, bounds, enabled, prevError, error, result,
                   bufMaxlen, prevSetpoint, elapsed, tolerance, stopped,
                   source, mutex, tick, pcU, pcQ, q_value, q_seen, ret,
                   nval, nkey>>

\* enabledChanged: self.isEnabled() != value, where Python holds True == 1
\* and False == 0 ...
listener_enabledChanged_test ==
    /\ pcN = "enabledChanged"
    /\ mutex = "free"
    /\ pcN' = IF (IF enabled THEN 1 ELSE 0) # nval THEN "enabledChanged_apply"
              ELSE AfterListener("enabledChanged")
    /\ last' = Step("enabledChanged", <<nval>>, "none", NoIO)
    /\ UNCHANGED <<gains, refs, bounds, enabled, loop, hist, sp, tolerance,
                   entries, stopped, source, mutex, tick, pcU, pcQ,
                   q_value, q_seen,
                   ret, nval, nkey>>

\* ... then enable() for a true value (any number but 0) and disable() for
\* a false one; disable() makes its sink call inside its critical section.
listener_enabledChanged_apply ==
    /\ pcN = "enabledChanged_apply"
    /\ mutex = "free"
    /\ enabled' = (nval # 0)
    /\ entries' = Mirror("enabled", nval # 0)
    /\ pcN' = AfterListener("enabledChanged")
    /\ last' = Step("enabledChanged_apply", <<nval>>, "none",
                    IF nval # 0 THEN NoIO
                    ELSE <<SinkWrite(0, "notifier", "notifier")>>)
    /\ UNCHANGED <<gains, refs, bounds, loop, hist, sp, tolerance, stopped,
                   source, mutex, tick, pcU, pcQ, q_value, q_seen, ret,
                   nval, nkey>>

----------------------------------------------------------------------------
(* Inputs the specifications draw from *)

Vals == {v * One : v \in -MaxVal .. MaxVal}

Kinds == {kDisplacement, kRate}

Readings == {v * One : v \in 0 .. MaxVal}

\* Ends of the input and output ranges the setters are given.
RangeEnds == {-One, 0, One}

BufLengths == 1 .. MaxBuf

\* <<Kp, Ki, Kd, Kf>>
GainMenu == {<<1, 0, 0, 0>>, <<2, 1, 1, 0>>, <<0, -2, 0, 1>>}

Percentages == {50, 100}

TickNext ==
    \/ T_wake
    \/ T_snapshot
    \/ T_begin
    \/ T_finish
    \/ T_sinkBegin
    \/ T_sinkEnd

----------------------------------------------------------------------------
(* Specifications *)

\* The life cycle: ticks against enable, disable, reset and free.
Init == InitWith({<<1, 1, 0, 0>>}, {kDisplacement}, {0})

Next ==
    \/ TickNext
    \/ \E v \in Vals : SensorChange(v)
    \/ enable
    \/ disable_write
    \/ disable_finish
    \/ reset_write
    \/ reset_finish
    \/ free_cancel
    \/ free_null
    \/ free_removeListeners
    \/ \E v \in Vals : setSetpoint(v)

Spec == Init /\ [][Next]_vars

\* The calculation: every gain set and source type, against changes of the
\* setpoint, the reading and the output range.
InitCalc == InitWith(GainMenu, Kinds, {0})

NextCalc ==
    \/ TickNext
    \/ Elapse
    \/ enable
    \/ \E v \in Vals : setSetpoint(v)
    \/ \E lo \in RangeEnds, hi \in RangeEnds : setOutputRange(lo, hi)

SpecCalc == InitCalc /\ [][NextCalc]_vars

\* The range setters, against ticks that fill the accumulator and history.
InitBounds == InitWith({<<1, 1, 0, 0>>}, {kDisplacement}, {0})

NextBounds ==
    \/ TickNext
    \/ enable
    \/ \E v \in Vals : setSetpoint(v)
    \/ \E lo \in RangeEnds, hi \in RangeEnds : setInputRange(lo, hi)
    \/ \E lo \in RangeEnds, hi \in RangeEnds : setOutputRange(lo, hi)

SpecBounds == InitBounds /\ [][NextBounds]_vars

\* Every writer of the setpoint.
InitSetpoint == InitWith({<<1, 0, 0, 0>>}, {kDisplacement}, {0})

NextSetpoint ==
    \/ TickNext
    \/ enable
    \/ \E v \in Vals : setSetpoint(v)
    \/ \E lo \in Vals, hi \in Vals : setInputRange(lo, hi)
    \/ initTable
    \/ \E v \in Vals : setpointChanged_test(v)
    \/ setpointChanged_set

SpecSetpoint == InitSetpoint /\ [][NextSetpoint]_vars

\* The error history: ticks that append, against setSetpoint, setInputRange
\* and setToleranceBuffer.
InitHist == InitWith({<<1, 0, 0, 0>>}, {kDisplacement}, {0})

NextHist ==
    \/ TickNext
    \/ \E v \in Vals : SensorChange(v)
    \/ enable
    \/ \E v \in Vals : setSetpoint(v)
    \/ setInputRange(-One, 0)
    \/ \E n \in BufLengths : setToleranceBuffer(n)

SpecHist == InitHist /\ [][NextHist]_vars

\* The tolerance strategies and onTarget().
InitTol == InitWith({<<1, 0, 0, 0>>}, {kDisplacement}, {0})

NextTol ==
    \/ TickNext
    \/ \E v \in Readings : SensorChange(v)
    \/ enable
    \/ setSetpoint(0)
    \/ \E n \in BufLengths : setToleranceBuffer(n)
    \/ setAbsoluteTolerance(One)
    \/ \E pct \in Percentages : setPercentTolerance(pct)
    \/ setInputRange(-One, One)
    \/ onTarget_unset
    \/ onTarget_percent
    \/ onTarget_absolute_valid
    \/ onTarget_absolute_avg

SpecTol == InitTol /\ [][NextTol]_vars

\* The accumulator: gains of either sign and zero, both source types, errors
\* that repeat, and no setpoint write to zero the accumulator.
WindupGains == {<<-1, 0, 0, 0>>, <<0, -2, 0, 0>>, <<2, 1, 0, 0>>}

InitWindup == InitWith(WindupGains, Kinds, {0})

NextWindup ==
    \/ TickNext
    \/ \E v \in Vals : SensorChange(v)
    \/ enable
    \/ \E lo \in RangeEnds, hi \in RangeEnds : setOutputRange(lo, hi)

SpecWindup == InitWindup /\ [][NextWindup]_vars

\* The wrap of the error: continuous and not, input ranges [0, 0], [0, 1],
\* [-1, 1] and [0, 360], and raw errors below, at and above half the range
\* and above the whole range.
WrapValues == {0, One, 100 * One, 180 * One, 200 * One, 360 * One}

WrapRanges == {<<0, 0>>, <<0, One>>, <<-One, One>>, <<0, 360 * One>>}

InitWrap == InitWith({<<1, 0, 0, 0>>}, {kDisplacement}, {0})

NextWrap ==
    \/ TickNext
    \/ \E v \in WrapValues : SensorChange(v)
    \/ enable
    \/ \E v \in WrapValues : setSetpoint(v)
    \/ \E r \in WrapRanges : setInputRange(r[1], r[2])
    \/ \E c \in BOOLEAN : setContinuous(c)

SpecWrap == InitWrap /\ [][NextWrap]_vars

\* One compute step in full: every gain set and source type, setpoints
\* inside and far outside the output range, time passing between ticks, and
\* the gains changed to a set with P = 0 on an accumulator already filled.
StepSetpoints == {-One, 0, One, 10 * One}

InitStep == InitWith(GainMenu, Kinds, {0})

NextStep ==
    \/ TickNext
    \/ Elapse
    \/ enable
    \/ \E v \in StepSetpoints : setSetpoint(v)
    \/ \E lo \in RangeEnds, hi \in RangeEnds : setOutputRange(lo, hi)
    \/ setPID(0, -2, 0, 1)

SpecStep == InitStep /\ [][NextStep]_vars

\* The source type: setPIDSourceType called from another thread, against
\* ticks of every gain set.
InitKind == InitWith(GainMenu, Kinds, {0})

NextKind ==
    \/ TickNext
    \/ Elapse
    \/ enable
    \/ \E v \in Vals : setSetpoint(v)
    \/ \E t \in Kinds : setPIDSourceType(t)

SpecKind == InitKind /\ [][NextKind]_vars

\* The mirroring table: pushes to each entry and the listeners they start.
Keys == {"p", "i", "d", "f", "setpoint", "enabled"}

PushValues(key) ==
    IF key = "enabled" THEN BOOLEAN
    ELSE IF key = "setpoint" THEN Vals
    ELSE 0 .. 2

InitTable == InitWith({<<1, 0, 0, 0>>}, {kDisplacement}, {0})

NextTable ==
    \/ enable
    \/ initTable
    \/ \E key \in Keys : \E v \in PushValues(key) : push(key, v)
    \/ pChanged
    \/ iChanged
    \/ dChanged
    \/ fChanged
    \/ listener_setpointChanged_test
    \/ listener_setpointChanged_set
    \/ listener_enabledChanged_test
    \/ listener_enabledChanged_apply

SpecTable == InitTable /\ [][NextTable]_vars

----------------------------------------------------------------------------
(* Claims *)

\* C1.  Every value the compute step stores in self.result and passes to the
\* sink lies within [minimumOutput, maximumOutput] as those bounds stood in
\* the critical section of that tick (t_min, t_max): right after the critical
\* section the stored result is within the bounds and is the value the tick
\* holds for the sink; while the tick waits to write or is writing, the value
\* it holds is within the bounds of its critical section; and the value the
\* sink receives is that value.
C1_OutputWithinBounds ==
    /\ last.op = "T_finish" =>
          /\ t_min = minimumOutput
          /\ t_max = maximumOutput
          /\ minimumOutput <= result
          /\ result <= maximumOutput
          /\ t_result = result
    /\ pcT \in {"out", "insink"} => t_min <= t_result /\ t_result <= t_max
    /\ last.op = "T_sinkBegin" => last.io[1].value = t_result

\* A tick delivers a result clamped at a lower bound that setOutputRange
\* moved, while the bounds have since been moved again.
C1_Witness ==
    /\ last.op = "T_sinkBegin"
    /\ last.io[1].value = t_min
    /\ t_min = 0
    /\ error < 0
    /\ minimumOutput # t_min

\* C2.  setInputRange and setOutputRange called with min > max raise and
\* leave the bounds, the setpoint, the accumulator and the error history as
\* they were (a call with min <= max does not raise and installs its
\* arguments), and minimumInput <= maximumInput and
\* minimumOutput <= maximumOutput in every reachable state.
C2_BoundsOrdered ==
    /\ minimumInput <= maximumInput
    /\ minimumOutput <= maximumOutput
    /\ last.op \in {"setInputRange", "setOutputRange"} =>
          IF last.arg[1] > last.arg[2]
          THEN last.raised = "ValueError"
          ELSE last.raised = "none"
    /\ last.op = "setInputRange" /\ last.arg[1] <= last.arg[2] =>
          minimumInput = last.arg[1] /\ maximumInput = last.arg[2]
    /\ last.op = "setOutputRange" /\ last.arg[1] <= last.arg[2] =>
          minimumOutput = last.arg[1] /\ maximumOutput = last.arg[2]

C2_BadRangeRejected ==
    /\ []C2_BoundsOrdered
    /\ [][last'.op \in {"setInputRange", "setOutputRange"}
            /\ last'.arg[1] > last'.arg[2]
          => UNCHANGED <<minimumInput, maximumInput, minimumOutput,
                         maximumOutput, setpoint, totalError, buf>>]_vars

\* A rejected setInputRange on a controller with a non-degenerate input
\* range, a non-zero accumulator and a non-empty history.
C2_Witness ==
    /\ last.op = "setInputRange"
    /\ last.raised = "ValueError"
    /\ minimumInput < maximumInput
    /\ totalError # 0
    /\ buf # <<>>

\* C3.  Whenever maximumInput > minimumInput the setpoint lies within
\* [minimumInput, maximumInput]; setSetpoint and an externally pushed setpoint
\* store the requested value clamped into that range, or the requested value
\* itself when the range is degenerate; a successful setInputRange leaves the
\* setpoint inside the new range.
C3_SetpointInRange ==
    /\ maximumInput > minimumInput =>
          minimumInput <= setpoint /\ setpoint <= maximumInput
    /\ last.op \in {"setSetpoint", "setpointChanged_set"} =>
          setpoint = IF maximumInput > minimumInput
                     THEN Max2(minimumInput, Min2(last.arg[1], maximumInput))
                     ELSE last.arg[1]

\* An externally pushed setpoint above a non-degenerate input range has been
\* stored as the upper end of the range.
C3_Witness ==
    /\ last.op = "setpointChanged_set"
    /\ maximumInput > minimumInput
    /\ last.arg[1] > maximumInput
    /\ setpoint = maximumInput

\* C4.  Every call of disable() on a controller in use, enabled or not,
\* writes zero to the sink exactly once, inside the call, and marks the
\* controller disabled only after that write: the step that begins the call
\* makes the one write and leaves enabled as it was, no later step of the
\* call writes, and the step that ends the call sets enabled to False.
C4_DisableWritesZeroOnce ==
    /\ [][pcU = "idle" /\ pcU' = "disable"
          => /\ last'.io = <<SinkWrite(0, "user", "user")>>
             /\ enabled' = enabled]_vars
    /\ [][pcU = "disable" /\ pcU' = "disable" /\ last' # last
          => /\ \A n \in 1 .. Len(last'.io) : last'.io[n].by # "user"
             /\ enabled' = enabled]_vars
    /\ [][pcU = "disable" /\ pcU' # "disable"
          => /\ pcU' = "idle"
             /\ last'.io = NoIO
             /\ ~enabled']_vars

\* disable() has made its write on a controller that was already disabled.
C4_Witness ==
    /\ pcU = "disable"
    /\ last.op = "disable"
    /\ ~enabled
    /\ prevError # 0

\* C5.  setSetpoint(value) always empties the error history and zeroes the
\* accumulator, also when value is the current setpoint, so that
\* isAvgErrorValid() is False after it; and an empty history becomes
\* non-empty only by a compute step appending a sample.
C5_SetpointClearsState ==
    last.op = "setSetpoint" =>
        /\ buf = <<>>
        /\ totalError = 0
        /\ ~isAvgErrorValid

C5_SetpointClearsHistory ==
    /\ []C5_SetpointClearsState
    /\ [][buf = <<>> /\ buf' # <<>> => last'.op = "T_finish"]_vars

\* setSetpoint was called with the setpoint the last tick ran against, after
\* that tick had appended a sample.
C5_Witness ==
    /\ last.op = "setSetpoint"
    /\ last.arg[1] = setpoint
    /\ prevSetpoint = setpoint
    /\ setpoint # 0
    /\ prevError # 0


\* C6.  onTarget() raises when no tolerance was set; after
\* setAbsoluteTolerance(v) or setPercentTolerance(p), the later call deciding,
\* it returns True iff the error history is non-empty and the absolute value
\* of its average is strictly below v, or below p/100 x (maximumInput -
\* minimumInput); with an empty history it returns False.  The history and
\* the bounds are those of the state in which the call returns; the tolerance
\* is the one the call ran.
C6_OnTarget ==
    /\ last.op = "onTarget" /\ tolerance.kind = "unset" =>
          ret = "ValueError" /\ last.raised = "ValueError"
    /\ last.op = "onTarget" /\ tolerance.kind = "percent" =>
          ret = Bool(/\ buf # <<>>
                     /\ 100 * Abs(SumSeq(buf))
                          < tolerance.value * (maximumInput - minimumInput) * Len(buf))
    /\ last.op = "onTarget" /\ tolerance.kind = "absolute" =>
          buf = <<>> /\ ret = "False"
    /\ last.op = "onTarget_avg" =>
          ret = Bool(buf # <<>> /\ Abs(SumSeq(buf)) < q_value * Len(buf))

\* What holds of onTarget() in place of C6: the same, for the absolute
\* strategy only of the calls that find the history non-empty in their second
\* critical section, which are all the calls no setSetpoint or setInputRange
\* runs into.
OnTargetUnraced ==
    /\ last.op = "onTarget" /\ tolerance.kind = "unset" =>
          ret = "ValueError" /\ last.raised = "ValueError"
    /\ last.op = "onTarget" /\ tolerance.kind = "percent" =>
          ret = Bool(/\ buf # <<>>
                     /\ 100 * Abs(SumSeq(buf))
                          < tolerance.value * (maximumInput - minimumInput) * Len(buf))
    /\ last.op = "onTarget" /\ tolerance.kind = "absolute" =>
          buf = <<>> /\ ret = "False"
    /\ last.op = "onTarget_avg" /\ buf # <<>> =>
          ret = Bool(Abs(SumSeq(buf)) < q_value * Len(buf))

\* C7.  The compute step computes the result and appends the error holding
\* the lock, has released the lock when it calls the sink, and calls the sink
\* with the clamped result of that tick; while the sink call is in progress
\* the tick does not hold the lock.
C7_SinkOutsideLock ==
    /\ pcT = "calc" => mutex = "tick"
    /\ pcT \in {"out", "insink"} => mutex # "tick"
    /\ last.op = "T_sinkBegin" =>
          /\ Len(last.io) = 1
          /\ last.io[1].locked # "tick"
          /\ last.io[1].value = t_result

\* A configuration call took the lock and returned while the tick's sink call
\* was in progress.
C7_Witness ==
    /\ pcT = "insink"
    /\ last.op = "setSetpoint"

\* C8.  Under every interleaving of free() with a compute step in progress,
\* the compute step raises no error.
C8_TickRaisesNothing ==
    /\ pcT # "raised"
    /\ last.op \in {"T_snapshot", "T_begin", "T_finish", "T_sinkBegin"} =>
          last.raised = "none"

\* C9.  A compute step that starts while the controller is disabled, or after
\* free() has cleared the source or the sink, ends at once: it reads no input,
\* calls no sink and leaves error, prevError, totalError, result, the error
\* history and prevSetpoint unchanged.
C9_IdleTickDoesNothing ==
    [][(/\ pcT = "start"
        /\ pcT' # "start"
        /\ (~enabled \/ pidInput = "None" \/ pidOutput = "None"))
       => /\ pcT' = "idle"
          /\ last'.io = NoIO
          /\ UNCHANGED <<error, prevError, totalError, result, buf,
                         prevSetpoint>>]_vars

\* A tick that the timer loop started before free() ended at once after
\* free() had cleared the references, on a controller still enabled and with
\* a sample in its history.
C9_Witness ==
    /\ last.op = "T_snapshot"
    /\ pcT = "idle"
    /\ pidInput = "None"
    /\ enabled
    /\ buf # <<>>

\* C10.  setToleranceBuffer(n) sets the capacity to n and keeps exactly the
\* newest min(n, length) samples, in their order.
C10_ResizeKeepsNewest ==
    [][last'.op = "setToleranceBuffer"
       => /\ bufMaxlen' = last'.arg[1]
          /\ buf' = SubSeq(buf, Len(buf) - Min2(last'.arg[1], Len(buf)) + 1,
                           Len(buf))]_vars

\* C11.  After every enabled compute step, with k = I for a displacement
\* source and k = P for a rate source: when k # 0, of either sign,
\* k x totalError lies within [minimumOutput, maximumOutput] as they stood in
\* that tick; when k = 0 the step leaves the accumulator as it was and the
\* term k x totalError is zero.
C11_TermWithinBounds ==
    last.op = "T_finish" =>
        LET k == IF t_branch = kRate THEN P ELSE I
        IN /\ k # 0 => t_min <= k * totalError /\ k * totalError <= t_max
           /\ k = 0 => k * totalError = 0

C11_AntiWindup ==
    /\ []C11_TermWithinBounds
    /\ [][last'.op = "T_finish" /\ (IF t_branch = kRate THEN P ELSE I) = 0
          => totalError' = totalError]_vars

\* A tick with a negative integral gain and a non-zero error left the
\* integral term at the lower bound of the tick.
C11_Witness ==
    /\ last.op = "T_finish"
    /\ t_branch = kDisplacement
    /\ I < 0
    /\ error # 0
    /\ buf = <<error>>
    /\ I * totalError = t_min
    /\ t_min < 0

\* C12.  The error a compute step stores for the raw error e = setpoint -
\* input is e when continuous is false or 2|e| <= maximumInput - minimumInput,
\* and otherwise e - (maximumInput - minimumInput) for e > 0 and
\* e + (maximumInput - minimumInput) for e <= 0; with continuous true and
\* |e| <= maximumInput - minimumInput its magnitude is at most half the
\* range; for the range [0, 360], +200 gives -160, -200 gives +160 and +100
\* gives +100.
C12_ContinuousError ==
    [][pcT = "snap" /\ pcT' = "calc"
       => LET e == setpoint - sensor
              range == maximumInput - minimumInput
          IN /\ ~continuous \/ 2 * Abs(e) <= range => error' = e
             /\ continuous /\ 2 * Abs(e) > range /\ e > 0 => error' = e - range
             /\ continuous /\ 2 * Abs(e) > range /\ e <= 0 => error' = e + range
             /\ continuous /\ Abs(e) <= range => 2 * Abs(error') <= range
             /\ continuous /\ minimumInput = 0 /\ maximumInput = 360 * One =>
                   /\ e = 200 * One => error' = -160 * One
                   /\ e = -200 * One => error' = 160 * One
                   /\ e = 100 * One => error' = 100 * One]_vars

\* On the range [0, 360] with continuous set, a tick stored -160 for the raw
\* error +200.
C12_Witness ==
    /\ last.op = "T_begin"
    /\ continuous
    /\ minimumInput = 0
    /\ maximumInput = 360 * One
    /\ setpoint - sensor = 200 * One
    /\ error = -160 * One

\* C13.  reset() takes the lock, writes zero to the sink once, disables the
\* controller and zeroes prevError, totalError and result before it releases
\* the lock: no critical section of a compute step runs between the write
\* and the clearing; and the call leaves the error history, the setpoint, the
\* gains and the bounds as they were.
C13_ResetHoldsLock ==
    pcU = "reset" => mutex = "user" /\ pcT # "calc"

C13_Reset ==
    /\ []C13_ResetHoldsLock
    /\ [][pcU = "idle" /\ pcU' = "reset"
          => /\ last'.io = <<SinkWrite(0, "user", "user")>>
             /\ UNCHANGED <<gains, bounds, hist, setpoint>>]_vars
    /\ [][pcU = "reset" /\ pcU' = "reset" /\ last' # last
          => /\ last'.op \in {"T_wake", "T_sinkBegin", "T_sinkEnd"}
             /\ UNCHANGED <<gains, bounds, hist, setpoint, loop, enabled>>]_vars
    /\ [][pcU = "reset" /\ pcU' # "reset"
          => /\ pcU' = "idle"
             /\ last'.io = NoIO
             /\ ~enabled'
             /\ prevError' = 0
             /\ totalError' = 0
             /\ result' = 0
             /\ UNCHANGED <<gains, bounds, hist, setpoint>>]_vars

\* reset() returned on a controller whose last tick had stored a non-zero
\* error against a non-zero setpoint: the sample is still in the history and
\* the accumulator is zero.
C13_Witness ==
    /\ last.op = "reset_finish"
    /\ setpoint # 0
    /\ buf # <<>>
    /\ buf[1] # 0
    /\ prevError = 0
    /\ totalError = 0
    /\ result = 0
    /\ ~enabled

\* C14.  With a table attached, a push to the entry of one key is re-applied
\* to the parameter of that key by the end of its notification, and no step
\* of the notification changes the parameter of another key.
C14_PushChangesItsParameterOnly ==
    /\ [][(\/ pcN' # pcN
           \/ pcN = "idle" /\ last'.op = "push" /\ entries' # entries)
          /\ pcN' = "idle"
          => /\ nkey' = "p" => P' = nval'
             /\ nkey' = "i" => I' = nval'
             /\ nkey' = "d" => D' = nval'
             /\ nkey' = "f" => F' = nval'
             /\ nkey' = "setpoint" => setpoint' = nval'
             /\ nkey' = "enabled" => enabled' = nval']_vars
    /\ [][pcN # "idle" /\ pcN' # pcN
          => /\ nkey # "p" => P' = P
             /\ nkey # "i" => I' = I
             /\ nkey # "d" => D' = D
             /\ nkey # "f" => F' = F
             /\ nkey # "setpoint" => setpoint' = setpoint
             /\ nkey # "enabled" => enabled' = enabled]_vars

\* C15.  In every reachable state the stored result, which get() returns,
\* lies within the current output bounds.
C15_ResultWithinCurrentBounds ==
    minimumOutput <= result /\ result <= maximumOutput

\* C16.  onTarget() returns True only when at least bufMaxlen samples, the
\* length given to setToleranceBuffer, have been appended by compute steps
\* since the error history was last empty.
C16_OnTargetAfterFullBuffer ==
    last.op \in {"onTarget", "onTarget_avg"} /\ ret = "True"
        => appended >= bufMaxlen

\* C17.  For a displacement source, the critical section of an enabled
\* compute step with error e leaves totalError as it was when I = 0 and
\* otherwise sets it to clamp(totalError + e, minimumOutput / I,
\* maximumOutput / I); sets result to clamp(P e + I totalError' +
\* D (e - prevError) + feedForward, minimumOutput, maximumOutput), prevError
\* being that of the step before; sets prevError to e and appends e to the
\* error history.  With P = 1, I = D = F = 0, input 0, setpoint 10 and
\* output range [-1, 1] the first output is 1.
C17_DisplacementStep ==
    [][pcT = "calc" /\ pcT' = "out" /\ t_branch = kDisplacement
         /\ pidSource = kDisplacement
       => LET e == error
              acc == IF I = 0 THEN totalError
                     ELSE Max2(Div(minimumOutput, I),
                               Min2(totalError + e, Div(maximumOutput, I)))
              ff == IF elapsed = 0 THEN 0
                    ELSE F * Div(setpoint - prevSetpoint, elapsed)
              raw == P * e + I * acc + D * (e - prevError) + ff
          IN /\ totalError' = acc
             /\ result' = Max2(minimumOutput, Min2(raw, maximumOutput))
             /\ t_result' = result'
             /\ prevError' = e
             /\ buf' # <<>>
             /\ buf'[Len(buf')] = e
             /\ Len(buf) < bufMaxlen => buf' = Append(buf, e)
             /\ (/\ P = 1 /\ I = 0 /\ D = 0 /\ F = 0
                 /\ sensor = 0 /\ setpoint = 10 * One
                 /\ minimumOutput = -One /\ maximumOutput = One)
                => result' = One]_vars

\* The first compute step of a controller with P = 1, I = D = F = 0, input 0,
\* setpoint 10 and output range [-1, 1] stored the result 1.
C17_Witness ==
    /\ last.op = "T_finish"
    /\ t_branch = kDisplacement
    /\ P = 1 /\ I = 0 /\ D = 0 /\ F = 0
    /\ sensor = 0
    /\ setpoint = 10 * One
    /\ minimumOutput = -One /\ maximumOutput = One
    /\ appended = 1
    /\ prevError = 10 * One
    /\ result = One
    /\ t_result = One

\* C18.  For a rate source, the critical section of every enabled compute
\* step adds the error e to totalError whatever P is, then clamps totalError
\* to [minimumOutput / P, maximumOutput / P] only if P # 0, and sets result
\* to P totalError' + D e + feedForward, clamped to the output bounds.
C18_RateStepAccumulatesAlways ==
    [][pcT = "calc" /\ pcT' = "out" /\ t_branch = kRate /\ pidSource = kRate
       => LET e == error
              acc == IF P = 0 THEN totalError + e
                     ELSE Max2(Div(minimumOutput, P),
                               Min2(totalError + e, Div(maximumOutput, P)))
              raw == P * acc + D * e + F * setpoint
          IN /\ totalError' = acc
             /\ result' = Max2(minimumOutput, Min2(raw, maximumOutput))]_vars

\* C18 as amended.  For a rate source, the critical section of an enabled
\* compute step with P # 0 sets totalError to clamp(totalError + e,
\* minimumOutput / P, maximumOutput / P); with P = 0 it leaves totalError as
\* it was; and it sets result to P totalError' + D e + feedForward, clamped
\* to the output bounds.
C18_RateStep ==
    [][pcT = "calc" /\ pcT' = "out" /\ t_branch = kRate /\ pidSource = kRate
       => LET e == error
              acc == IF P = 0 THEN totalError
                     ELSE Max2(Div(minimumOutput, P),
                               Min2(totalError + e, Div(maximumOutput, P)))
              raw == P * acc + D * e + F * setpoint
          IN /\ totalError' = acc
             /\ result' = Max2(minimumOutput, Min2(raw, maximumOutput))
             /\ t_result' = result']_vars

\* A rate step with P = 0 and a non-zero error left a non-zero accumulator
\* as it was and stored the feed-forward term as the result.
C18_Witness ==
    /\ last.op = "T_finish"
    /\ t_branch = kRate
    /\ pidSource = kRate
    /\ P = 0
    /\ error # 0
    /\ totalError # 0
    /\ totalError # error
    /\ result = F * setpoint
    /\ result # 0

\* C19.  The one call of calculateFeedForward() an enabled compute step
\* makes returns F setpoint for a rate source and leaves prevSetpoint and the
\* setpoint timer alone; for a displacement source it returns
\* F (setpoint - prevSetpoint) / elapsed, or 0 when the elapsed time is zero,
\* and sets prevSetpoint to the setpoint and the timer to zero, so that an
\* evaluation right after it, the setpoint unchanged, returns 0.  The term
\* enters the result once, and a tick that finds the controller disabled
\* evaluates nothing.
C19_SecondEvaluationIsZero ==
    last.op = "T_finish" /\ pidSource = kDisplacement =>
        /\ prevSetpoint = setpoint
        /\ (IF elapsed = 0 THEN 0
            ELSE F * Div(setpoint - prevSetpoint, elapsed)) = 0

C19_FeedForward ==
    /\ []C19_SecondEvaluationIsZero
    /\ [][pcT = "calc" /\ pcT' = "out" /\ pidSource = kRate
          => /\ last'.arg = <<F * setpoint>>
             /\ UNCHANGED <<prevSetpoint, elapsed, setpoint>>]_vars
    /\ [][pcT = "calc" /\ pcT' = "out" /\ pidSource = kDisplacement
          => /\ last'.arg = <<IF elapsed = 0 THEN 0
                               ELSE F * Div(setpoint - prevSetpoint, elapsed)>>
             /\ prevSetpoint' = setpoint
             /\ elapsed' = 0
             /\ UNCHANGED setpoint]_vars
    /\ [][pcT = "calc" /\ pcT' = "out"
          => result' = Max2(minimumOutput, Min2(
                 (IF t_branch = kRate THEN P * totalError' + D * error
                  ELSE P * error + I * totalError' + D * (error - prevError))
                 + last'.arg[1], maximumOutput))]_vars
    /\ [][pcT = "start" /\ pcT' = "idle"
          => UNCHANGED <<prevSetpoint, elapsed>>]_vars

\* A displacement step, some time after a change of the setpoint, evaluated
\* a non-zero feed-forward term and advanced prevSetpoint to the setpoint.
C19_Witness ==
    /\ last.op = "T_finish"
    /\ pidSource = kDisplacement
    /\ F # 0
    /\ last.arg[1] # 0
    /\ prevSetpoint = setpoint
    /\ elapsed = 0

\* C20.  Whenever the sink is invoked, by a compute step, by disable() or by
\* reset(), the invoking thread does not hold the lock, and it holds none
\* while its sink call is in progress.
C20_EverySinkCallOutsideLock ==
    /\ \A n \in 1 .. Len(last.io) :
          last.io[n].call = "pidOutput" => last.io[n].locked # last.io[n].by
    /\ pcT = "insink" => mutex # "tick"
    /\ pcU \in {"disable", "reset"} => mutex # "user"

\* C21.  While the controller is disabled and no disable() or reset() is in
\* progress, that is from the return of disable() or reset() until the next
\* enable(), no step of a compute step calls the sink or changes error,
\* prevError, totalError, result or the error history: the zero disable()
\* wrote stays the last value delivered, and what reset() zeroed stays zero.
C21_NoTickEffectWhileDisabled ==
    [][~enabled /\ pcU = "idle" /\ pcT' # pcT
       => /\ \A n \in 1 .. Len(last'.io) : last'.io[n].call # "pidOutput"
          /\ UNCHANGED <<error, prevError, totalError, result, buf>>]_vars

\* C22.  Under every interleaving with setSetpoint and the compute step, a
\* call of onTarget(), with either strategy, returns True only if at some
\* moment of the call the error history was non-empty and the absolute value
\* of its average was below the tolerance; and it does not return True when
\* the history it averages has been emptied.
C22_OnTargetAtomic ==
    /\ last.op \in {"onTarget", "onTarget_avg"} /\ ret = "True" => q_seen
    /\ last.op = "onTarget_avg" /\ ret = "True" => buf # <<>>

\* C23.  In every reachable state, every sample held in the error history
\* was computed against the setpoint of that state.
C23_SamplesOfCurrentSetpoint ==
    /\ Len(bufSetpoints) = Len(buf)
    /\ \A n \in 1 .. Len(bufSetpoints) : bufSetpoints[n] = setpoint

\* The history holds two different samples, both computed against the
\* current, non-zero setpoint, which is the lower end of the input range.
C23_Witness ==
    /\ Len(buf) = 2
    /\ buf[1] # buf[2]
    /\ setpoint # 0
    /\ setpoint = minimumInput
    /\ minimumInput < maximumInput
    /\ prevError = buf[2]
    /\ bufSetpoints = <<setpoint, setpoint>>

\* C24.  Within one compute step, the source type that selected the rate or
\* the displacement formula of the result (t_branch) is the type
\* calculateFeedForward reads for the feed-forward term of that step, so the
\* term and its effect on prevSetpoint and the setpoint timer are those of
\* the selected formula.
C24_KindReadConsistently ==
    [][pcT = "calc" /\ pcT' = "out"
       => /\ t_branch = pidSource
          /\ t_branch = kRate =>
                /\ last'.arg[1] = F * setpoint
                /\ UNCHANGED <<prevSetpoint, elapsed>>
          /\ t_branch = kDisplacement =>
                /\ last'.arg[1] = IF elapsed = 0 THEN 0
                                  ELSE F * Div(setpoint - prevSetpoint, elapsed)
                /\ prevSetpoint' = setpoint
                /\ elapsed' = 0]_vars

============================================================================
